---------------------------- MODULE Spec2Model ----------------------------
(***************************************************************************)
(* Package bytesort: Encode turns a value into a byte slice whose unsigned *)
(* bytewise order follows the order of the values.                         *)
(*                                                                         *)
(* src/ holds two revisions of the package:                                *)
(*   "1.0.0"  src/bytesort.go, the release CHANGELOG.md calls 1.0.0;       *)
(*   "head"   the listing that follows the README text in src/README.md    *)
(*            (lines 83-221), the revision CHANGELOG.md calls Unreleased.  *)
(* A build compiles one of them; rev records which.  encodeFloat32,        *)
(* encodeFloat64 and encodeTime are the same text in both.                 *)
(*                                                                         *)
(* Numbers.  TLC's integers are 32 bits wide, so a Go integer wider than   *)
(* that is held as its digits, most significant first: a 16, 32 or 64 bit  *)
(* value is 1, 2 or 4 digits in base 65536, an 8 bit value one digit in    *)
(* base 256.  The first digit of a signed value is signed                  *)
(* (-32768..32767, or -128..127), every other digit is 0..65535.  The      *)
(* value is the usual positional sum, so numeric order is the order of the *)
(* digit sequences, compared from the first digit on.                      *)
(***************************************************************************)
EXTENDS Integers, Sequences, FiniteSets, TLC

\* Longest string / []byte input.
MaxLen == 2
\* How many values next to each end (and next to zero) of a digit's range
\* the inputs are drawn from.
Near == 1

VARIABLES rev, goV2, a, b, ra, rb, inBuf, outBuf, shared, wrote

vars == <<rev, goV2, a, b, ra, rb, inBuf, outBuf, shared, wrote>>

---------------------------------------------------------------------------
\* Bit operations on naturals below 2^n (Go's ^, | on unsigned words).

RECURSIVE BitXor(_, _, _)
BitXor(x, y, n) ==
    IF n = 0 THEN 0
    ELSE (((x % 2) + (y % 2)) % 2) + 2 * BitXor(x \div 2, y \div 2, n - 1)

RECURSIVE BitOr(_, _, _)
BitOr(x, y, n) ==
    IF n = 0 THEN 0
    ELSE (IF x % 2 = 1 \/ y % 2 = 1 THEN 1 ELSE 0)
         + 2 * BitOr(x \div 2, y \div 2, n - 1)

\* An unsigned word as digits in base 65536, most significant first.
Base == 256 * 256

WordXor(x, y) == [i \in 1..Len(x) |-> BitXor(x[i], y[i], 16)]

WordOr(x, y) == [i \in 1..Len(x) |-> BitOr(x[i], y[i], 16)]

\* The negation left out: bits ^= (bits >> 63) | (1 << 63).
WordNegMissing(x) == x

\* Unsigned negation -x, modulo 2^(16 * Len(x)): 0 stays 0, and otherwise
\* the digits below the last non-zero one stay 0, that one is negated and
\* the ones above it are complemented.
WordNeg(x) ==
    LET nz == {i \in 1..Len(x) : x[i] # 0}
    IN  IF nz = {} THEN x
        ELSE LET k == CHOOSE i \in nz : \A j \in nz : j <= i
             IN  [i \in 1..Len(x) |->
                    IF i < k THEN (Base - 1) - x[i]
                    ELSE IF i = k THEN Base - x[i]
                    ELSE 0]

\* x >> (16 * Len(x) - 1): the top bit, as a word.
WordTopBit(x) == [i \in 1..Len(x) |-> IF i = Len(x) THEN x[1] \div 32768 ELSE 0]

\* The mask shifted by one bit too few: 1 << (16 * n - 2).
WordSignMaskShort(n) == [i \in 1..n |-> IF i = 1 THEN 16384 ELSE 0]

\* 1 << (16 * n - 1)
WordSignMask(n) == [i \in 1..n |-> IF i = 1 THEN 32768 ELSE 0]

\* binary.LittleEndian in the place of binary.BigEndian.
RECURSIVE PutUintLittle(_)
PutUintLittle(x) ==
    IF x = <<>> THEN <<>>
    ELSE PutUintLittle(Tail(x)) \o <<x[1] % 256, x[1] \div 256>>

\* binary.BigEndian.PutUint16/32/64: the bytes of a word, first digit first,
\* each digit as byte(d >> 8), byte(d).
RECURSIVE PutUint(_)
PutUint(x) ==
    IF x = <<>> THEN <<>>
    ELSE <<x[1] \div 256, x[1] % 256>> \o PutUint(Tail(x))

\* The conversions uint16(v), uint32(v), uint64(v) of a signed value: the
\* same bits read as unsigned, i.e. the first digit modulo 65536.
ToUnsigned(d) == [i \in 1..Len(d) |-> IF i = 1 THEN d[1] % Base ELSE d[i]]

\* A widening that goes through the unsigned type, uint64(uint32(v)): no
\* sign extension.
SignExtendMissing(d) == IF Len(d) = 4 THEN d ELSE <<0, 0, d[1] % Base, d[2]>>

\* int64(v) of a signed value (sign extension to 4 digits).
SignExtend(d) ==
    IF Len(d) = 4 THEN d
    ELSE IF d[1] < 0 THEN <<-1, Base - 1, d[1] + Base, d[2]>>
    ELSE <<0, 0, d[1], d[2]>>

\* uint64(v) of an unsigned value (zero extension to 4 digits).
ZeroExtend(d) == IF Len(d) = 4 THEN d ELSE <<0, 0, d[1], d[2]>>

\* The sign bit left as it is.
FlipFirstMissing(bs) == bs

\* b[0] ^= 0x80
FlipFirst(bs) == [bs EXCEPT ![1] = BitXor(bs[1], 128, 8)]

---------------------------------------------------------------------------
\* Errors: nil, or a message (its parts in order).

NilErr == [isNil |-> TRUE, msg |-> <<>>]

Errorf(parts) == [isNil |-> FALSE, msg |-> parts]

ErrPrefix == "bytesort.Encode: "

\* fmt.Errorf("bytesort.Encode: unsupported type %T", v)
UnsupportedType(v) == Errorf(<<ErrPrefix, "unsupported type ", v.type>>)

\* What a call returns: (b, err).
Ret(bs, e) == [called |-> TRUE, b |-> bs, err |-> e]

NotCalled == [called |-> FALSE, b |-> <<>>, err |-> NilErr]

---------------------------------------------------------------------------
\* Slices.  A []byte is a view of an array that its holder may write to
\* later.  For the call on a, inBuf is the array of the argument (when a is
\* a []byte) and outBuf the array of the slice returned, as they are now;
\* a.s and ra.b stay what they were at the call.  shared says that the two
\* slices are views of one array; wrote, which of them the caller has
\* written to since the call.

---------------------------------------------------------------------------
\* Values.  Every input is a record with its dynamic type in .type:
\*   bool                    [type, v]            v a BOOLEAN
\*   int8 .. uint64          [type, d]            d the digits (see above)
\*   int, uint               [type, d]            2 digits on a 32 bit host,
\*                                                4 on a 64 bit one
\*   float32, float64        [type, sign, exp, mant]  the IEEE-754 fields;
\*                           mant as digits: 7+16 bits, or 4+16+16+16 bits
\*   string, []byte          [type, s]            s the bytes
\*   time.Time               [type, sec, nsec, utc, offset]
\*                           sec: seconds since January 1, year 1 UTC (4
\*                           digits, signed), nsec: 0..999999999, utc:
\*                           Location() == time.UTC, offset: seconds east
\*   int64Type               [type, d]            the test's wrapper of int64
\*   Encoder                 [type, ret]          any other implementer of
\*                           EncodeSortable; ret is what that method returns
\*   <nil>, []string, map[string]string           [type]

SignedTypes == {"int8", "int16", "int32", "int64", "int"}

UnsignedTypes == {"uint8", "uint16", "uint32", "uint64", "uint"}

FloatTypes == {"float32", "float64"}

\* math.Float32bits / math.Float64bits: sign, exponent and mantissa packed
\* into one word (1+8+23 bits, or 1+11+52 bits).
Float32bits(v) == <<v.sign * 32768 + v.exp * 128 + v.mant[1], v.mant[2]>>

Float64bits(v) ==
    <<v.sign * 32768 + v.exp * 16 + v.mant[1], v.mant[2], v.mant[3], v.mant[4]>>

---------------------------------------------------------------------------
\* time.Time.MarshalBinary of the Go standard library, which encodeTime
\* calls.  Go's / and % truncate towards zero.

TruncDiv(x, y) == IF x >= 0 THEN x \div y ELSE -((-x) \div y)

TruncRem(x, y) == x - y * TruncDiv(x, y)

\* The bytes of an int32 that is not negative.
PutInt32(n) ==
    <<(n \div (256 * 256 * 256)) % 256, (n \div (256 * 256)) % 256,
      (n \div 256) % 256, n % 256>>

\* v2 is the toolchain: current Go releases (v2 = TRUE) write an offset with
\* a fraction of a minute in format version 2, with one more byte for the
\* seconds; older ones (the ones of release 1.0.0's time) return an error.
MarshalBinary(v2, t) ==
    LET offMin == IF t.utc THEN -1 ELSE TruncDiv(t.offset, 60)
        offSec == IF t.utc THEN 0 ELSE TruncRem(t.offset, 60)
        version == IF offSec # 0 THEN 2 ELSE 1
        enc == <<version>> \o PutUint(ToUnsigned(t.sec)) \o PutInt32(t.nsec)
               \o PutUint(<<offMin % Base>>)
    IN  IF ~t.utc /\ offSec # 0 /\ ~v2
        THEN [b |-> <<>>,
              err |-> Errorf(<<"Time.MarshalBinary: zone offset has fractional minute">>)]
        ELSE IF ~t.utc /\ (offMin < -32768 \/ offMin = -1 \/ offMin > 32767)
        THEN [b |-> <<>>,
              err |-> Errorf(<<"Time.MarshalBinary: unexpected zone offset">>)]
        ELSE [b |-> IF version = 2 THEN enc \o <<offSec % 256>> ELSE enc,
              err |-> NilErr]

\* The failure returned together with a buffer.
encodeTimePartial(v2, v) ==
    LET m == MarshalBinary(v2, v)
    IN  IF ~m.err.isNil
        THEN Ret(<<0>>, Errorf(<<ErrPrefix>> \o m.err.msg))
        ELSE Ret(SubSeq(m.b, 2, Len(m.b) - 2), NilErr)

\* The failure passed on as it came.
encodeTimeBare(v2, v) ==
    LET m == MarshalBinary(v2, v)
    IN  IF ~m.err.isNil
        THEN Ret(<<>>, m.err)
        ELSE Ret(SubSeq(m.b, 2, Len(m.b) - 2), NilErr)

encodeTime(v2, v) ==
    LET m == MarshalBinary(v2, v)
    IN  IF ~m.err.isNil
        THEN Ret(<<>>, Errorf(<<ErrPrefix>> \o m.err.msg))
        ELSE Ret(SubSeq(m.b, 2, Len(m.b) - 2), NilErr)

\* bits ^= -(bits >> 63) | (1 << 63), then PutUint64
encodeFloat64(v) ==
    LET bits == Float64bits(v)
    IN  PutUint(WordXor(bits, WordOr(WordNeg(WordTopBit(bits)), WordSignMask(4))))

\* bits ^= -(bits >> 31) | (1 << 31), then PutUint32
encodeFloat32(v) ==
    LET bits == Float32bits(v)
    IN  PutUint(WordXor(bits, WordOr(WordNeg(WordTopBit(bits)), WordSignMask(2))))

---------------------------------------------------------------------------
\* Revision 1.0.0 (src/bytesort.go).

intDataSize(data) ==
    CASE data.type \in {"bool", "int8", "uint8"} -> 1
      [] data.type \in {"int16", "uint16"} -> 2
      [] data.type \in {"int32", "uint32"} -> 4
      [] data.type \in {"int64", "uint64", "int", "uint"} -> 8
      [] OTHER -> 0

encodeInt(data) ==
    LET n == intDataSize(data)
        bs == CASE data.type = "bool" -> <<IF data.v THEN 1 ELSE 0>>
                [] data.type = "int8" -> <<data.d[1] % 256>>
                [] data.type = "uint8" -> <<data.d[1]>>
                [] data.type \in {"int16", "int32", "int64"} ->
                       PutUint(ToUnsigned(data.d))
                [] data.type \in {"uint16", "uint32", "uint64"} -> PutUint(data.d)
                [] data.type = "int" -> PutUint(ToUnsigned(SignExtend(data.d)))
                [] data.type = "uint" -> PutUint(ZeroExtend(data.d))
    IN  IF n = 0 THEN Ret(<<>>, UnsupportedType(data))
        ELSE Ret(IF data.type \in SignedTypes THEN FlipFirst(bs) ELSE bs, NilErr)

EncodeV1(v2, v) ==
    CASE v.type = "string" -> Ret(IF Len(v.s) = 0 THEN <<0>> ELSE v.s, NilErr)
      [] v.type = "time.Time" -> encodeTime(v2, v)
      [] v.type = "float64" -> Ret(encodeFloat64(v), NilErr)
      [] v.type = "float32" -> Ret(encodeFloat32(v), NilErr)
      [] OTHER -> encodeInt(v)

---------------------------------------------------------------------------
\* Revision head (the listing in src/README.md).

RECURSIVE EncodeHead(_, _)

\* func (s int64Type) EncodeSortable() of the tests, and the EncodeSortable
\* of any other implementer, which returns what it pleases.
EncodeSortable(v2, v) ==
    IF v.type = "int64Type"
    THEN EncodeHead(v2, [type |-> "int64", d |-> v.d])
    ELSE Ret(v.ret.b, v.ret.err)

EncodeHead(v2, v) ==
    CASE v.type = "[]byte" -> Ret(v.s, NilErr)
      [] v.type = "string" -> Ret(v.s, NilErr)
      [] v.type = "time.Time" -> encodeTime(v2, v)
      [] v.type = "float64" -> Ret(encodeFloat64(v), NilErr)
      [] v.type = "float32" -> Ret(encodeFloat32(v), NilErr)
      [] v.type = "bool" -> Ret(<<IF v.v THEN 1 ELSE 0>>, NilErr)
      [] v.type = "int8" -> Ret(FlipFirst(<<v.d[1] % 256>>), NilErr)
      [] v.type = "uint8" -> Ret(<<v.d[1]>>, NilErr)
      [] v.type \in {"int16", "int32", "int64"} ->
             Ret(FlipFirst(PutUint(ToUnsigned(v.d))), NilErr)
      [] v.type \in {"uint16", "uint32", "uint64"} -> Ret(PutUint(v.d), NilErr)
      [] v.type = "int" ->
             Ret(FlipFirst(PutUint(ToUnsigned(SignExtend(v.d)))), NilErr)
      [] v.type = "uint" -> Ret(PutUint(ZeroExtend(v.d)), NilErr)
      [] v.type \in {"int64Type", "Encoder"} -> EncodeSortable(v2, v)
      [] OTHER -> Ret(<<>>, UnsupportedType(v))

\* Whether the slice Encode returns is a view of the argument's array.  No
\* revision returns its argument: head copies a []byte into a slice it makes
\* (b := make([]byte, len(vv)); copy(b, vv)), []byte(v) of a string
\* allocates, every other case makes its own slice, and 1.0.0 returns nil
\* for a []byte.
Shares(r, v) == FALSE

\* Encode of the revision that was built.
Encode(r, v2, v) == IF r = "1.0.0" THEN EncodeV1(v2, v) ELSE EncodeHead(v2, v)

---------------------------------------------------------------------------
\* The inputs the calls are made with.

SignedEdge(lo, hi) == (lo..(lo + Near)) \cup ((0 - Near)..Near) \cup ((hi - Near)..hi)

UnsignedEdge(hi) ==
    LET half == (hi + 1) \div 2
    IN  (0..Near) \cup ((half - Near)..(half + Near - 1)) \cup ((hi - Near)..hi)

\* The digits below the first: all zero, one, all ones.
LowDigits(n) ==
    {[i \in 1..n |-> 0], [i \in 1..n |-> IF i = n THEN 1 ELSE 0],
     [i \in 1..n |-> Base - 1]}

\* Numbers of n digits (n = 0: one digit in base 256).
SignedDigits(n) ==
    IF n = 0 THEN {<<x>> : x \in SignedEdge(-128, 127)}
    ELSE IF n = 1 THEN {<<x>> : x \in SignedEdge(-32768, 32767)}
    ELSE {<<x>> \o l : x \in SignedEdge(-32768, 32767), l \in LowDigits(n - 1)}

UnsignedDigits(n) ==
    IF n = 0 THEN {<<x>> : x \in UnsignedEdge(255)}
    ELSE IF n = 1 THEN {<<x>> : x \in UnsignedEdge(Base - 1)}
    ELSE {<<x>> \o l : x \in UnsignedEdge(Base - 1), l \in LowDigits(n - 1)}

Num(t, ds) == {[type |-> t, d |-> x] : x \in ds}

IntegerValues ==
    Num("int8", SignedDigits(0)) \cup Num("int16", SignedDigits(1))
    \cup Num("int32", SignedDigits(2)) \cup Num("int64", SignedDigits(4))
    \cup Num("int", SignedDigits(2) \cup SignedDigits(4))
    \cup Num("uint8", UnsignedDigits(0)) \cup Num("uint16", UnsignedDigits(1))
    \cup Num("uint32", UnsignedDigits(2)) \cup Num("uint64", UnsignedDigits(4))
    \cup Num("uint", UnsignedDigits(2) \cup UnsignedDigits(4))

Bools == {[type |-> "bool", v |-> x] : x \in BOOLEAN}

\* Zero and subnormals (exp 0), the smallest and largest normal exponent,
\* and the exponent of the infinities and NaNs.
Floats ==
    {[type |-> "float32", sign |-> s, exp |-> e, mant |-> m] :
        s \in {0, 1}, e \in {0, 1, 254, 255}, m \in {<<0, 0>>, <<0, 1>>, <<127, Base - 1>>}}
    \cup
    {[type |-> "float64", sign |-> s, exp |-> e, mant |-> m] :
        s \in {0, 1}, e \in {0, 1, 2046, 2047},
        m \in {<<0, 0, 0, 0>>, <<0, 0, 0, 1>>, <<15, Base - 1, Base - 1, Base - 1>>}}

RECURSIVE ByteSeqs(_)
ByteSeqs(n) ==
    IF n = 0 THEN {<<>>}
    ELSE LET shorter == ByteSeqs(n - 1)
         IN  shorter \cup {<<x>> \o s : x \in {0, 97, 255}, s \in {t \in shorter : Len(t) = n - 1}}

Strings == {[type |-> "string", s |-> x] : x \in ByteSeqs(MaxLen)}

ByteSlices == {[type |-> "[]byte", s |-> x] : x \in ByteSeqs(MaxLen)}

\* The last second of the year before year 1, the first of year 1, and the
\* Unix epoch (62135596800 s later) and the second after it; in UTC, in the
\* tests' UTC-4, 30 s east, one minute west, and 32768 minutes east.
Times ==
    {[type |-> "time.Time", sec |-> s, nsec |-> n, utc |-> z.utc, offset |-> z.offset] :
        s \in {<<-1, Base - 1, Base - 1, Base - 1>>, <<0, 0, 0, 0>>,
               <<0, 14, 30609, 63232>>, <<0, 14, 30609, 63233>>},
        n \in {0, 999999999},
        z \in {[utc |-> TRUE, offset |-> 0]}
              \cup {[utc |-> FALSE, offset |-> o] : o \in {-14400, 30, -60, 32768 * 60}}}

Encoders ==
    Num("int64Type", SignedDigits(4))
    \cup {[type |-> "Encoder", ret |-> [b |-> x, err |-> e]] :
            x \in {<<>>, <<1>>}, e \in {NilErr, Errorf(<<"boom">>)}}

Unsupported == {[type |-> t] : t \in {"<nil>", "[]string", "map[string]string"}}

Values ==
    IntegerValues \cup Bools \cup Floats \cup Strings \cup ByteSlices \cup Times
    \cup Encoders \cup Unsupported

HasDigits(v) == v.type \in SignedTypes \cup UnsignedTypes \cup {"int64Type"}

\* Two values of one type (for int and uint: of one host).
SameType(x, y) ==
    /\ x.type = y.type
    /\ HasDigits(x) => Len(x.d) = Len(y.d)

---------------------------------------------------------------------------
\* The program: a build, two values of one type, and a call of Encode on
\* each.

Init ==
    /\ rev \in {"1.0.0", "head"}
    /\ goV2 \in BOOLEAN
    /\ a \in Values
    /\ b \in {y \in Values : SameType(a, y)}
    /\ ra = NotCalled
    /\ rb = NotCalled
    /\ inBuf = (IF a.type = "[]byte" THEN a.s ELSE <<>>)
    /\ outBuf = <<>>
    /\ shared = FALSE
    /\ wrote = {}

\* Encode reads its argument and writes to the slice it returns only.
EncodeA ==
    /\ ~ra.called
    /\ ra' = Encode(rev, goV2, a)
    /\ outBuf' = ra'.b
    /\ shared' = Shares(rev, a)
    /\ UNCHANGED <<rev, goV2, a, b, rb, inBuf, wrote>>

EncodeB ==
    /\ ~rb.called
    /\ rb' = Encode(rev, goV2, b)
    /\ UNCHANGED <<rev, goV2, a, b, ra, inBuf, outBuf, shared, wrote>>

\* After the call the caller writes to the []byte it passed: in[i] = x.
WriteIn ==
    /\ ra.called /\ a.type = "[]byte" /\ "in" \notin wrote
    /\ \E i \in 1..Len(inBuf) : \E x \in {0, 97, 255} \ {inBuf[i]} :
        /\ inBuf' = [inBuf EXCEPT ![i] = x]
        /\ outBuf' = IF shared THEN [outBuf EXCEPT ![i] = x] ELSE outBuf
    /\ wrote' = wrote \cup {"in"}
    /\ UNCHANGED <<rev, goV2, a, b, ra, rb, shared>>

\* After the call the caller writes to the slice it got back: b[i] = x.
WriteOut ==
    /\ ra.called /\ a.type = "[]byte" /\ "out" \notin wrote
    /\ \E i \in 1..Len(outBuf) : \E x \in {0, 97, 255} \ {outBuf[i]} :
        /\ outBuf' = [outBuf EXCEPT ![i] = x]
        /\ inBuf' = IF shared THEN [inBuf EXCEPT ![i] = x] ELSE inBuf
    /\ wrote' = wrote \cup {"out"}
    /\ UNCHANGED <<rev, goV2, a, b, ra, rb, shared>>

Next == EncodeA \/ EncodeB \/ WriteIn \/ WriteOut

Spec == Init /\ [][Next]_vars

---------------------------------------------------------------------------
\* The orders the claims compare.

Min(x, y) == IF x <= y THEN x ELSE y

\* x comes before y at the first place where they differ.
FirstDiffLess(x, y) ==
    \E i \in 1..Min(Len(x), Len(y)) :
        /\ x[i] < y[i]
        /\ \A j \in 1..(i - 1) : x[j] = y[j]

IsPrefix(x, y) == Len(x) <= Len(y) /\ \A i \in 1..Len(x) : x[i] = y[i]

\* bytes.Compare(x, y) <= 0
BytesLeq(x, y) == IsPrefix(x, y) \/ FirstDiffLess(x, y)

\* x <= y for two numbers of one type, as digits
NumLeq(x, y) == x = y \/ FirstDiffLess(x, y)

BoolLeq(x, y) == ~x \/ y

IsNaN(v) ==
    /\ v.exp = (IF v.type = "float32" THEN 255 ELSE 2047)
    /\ \E i \in 1..Len(v.mant) : v.mant[i] # 0

IsZero(v) == v.exp = 0 /\ \A i \in 1..Len(v.mant) : v.mant[i] = 0

\* |x| < |y| for two floats that are not NaN: the magnitude grows with the
\* exponent and then with the mantissa (infinity has the largest exponent).
MagLess(x, y) == FirstDiffLess(<<x.exp>> \o x.mant, <<y.exp>> \o y.mant)

\* x < y in IEEE-754 for two floats that are not NaN.
FloatLess(x, y) ==
    /\ ~(IsZero(x) /\ IsZero(y))
    /\ \/ x.sign = 1 /\ y.sign = 0
       \/ x.sign = 0 /\ y.sign = 0 /\ MagLess(x, y)
       \/ x.sign = 1 /\ y.sign = 1 /\ MagLess(y, x)

\* x == y in IEEE-754 for two floats that are not NaN: -0 == +0.
FloatEq(x, y) == (IsZero(x) /\ IsZero(y)) \/ x = y

FloatLeq(x, y) == FloatLess(x, y) \/ FloatEq(x, y)

\* !x.After(y): the instants compare by seconds, then nanoseconds.
TimeLeq(x, y) == NumLeq(x.sec \o <<x.nsec>>, y.sec \o <<y.nsec>>)

\* x.Equal(y): the same instant, whatever the zones.
SameInstant(x, y) == x.sec = y.sec /\ x.nsec = y.nsec

BothCalled == ra.called /\ rb.called

BothSucceed == BothCalled /\ ra.err.isNil /\ rb.err.isNil

---------------------------------------------------------------------------
\* C1: for two values a, b of one integer type (int8..int64, int,
\* uint8..uint64, uint) or two bools, Encode succeeds on both and a <= b
\* exactly when Encode(a) <= Encode(b) bytewise.
C1_IntegerOrder ==
    (BothCalled /\ a.type \in SignedTypes \cup UnsignedTypes \cup {"bool"}) =>
        /\ ra.err.isNil /\ rb.err.isNil
        /\ (IF a.type = "bool" THEN BoolLeq(a.v, b.v) ELSE NumLeq(a.d, b.d))
           <=> BytesLeq(ra.b, rb.b)

\* A negative and a non-negative int64, encoded, the negative one first.
C1_Witness ==
    /\ BothCalled /\ a.type = "int64" /\ a.d[1] < 0 /\ b.d[1] >= 0
    /\ BytesLeq(ra.b, rb.b) /\ ~BytesLeq(rb.b, ra.b)

\* C2 as stated: for two floats a, b of one width, neither a NaN (infinities
\* and both zeros included), a <= b in IEEE-754 order exactly when
\* Encode(a) <= Encode(b) bytewise.
C2_FloatOrder_Stated ==
    (BothCalled /\ a.type \in FloatTypes /\ ~IsNaN(a) /\ ~IsNaN(b)) =>
        (FloatLeq(a, b) <=> BytesLeq(ra.b, rb.b))

\* C2 amended: the same, except for a = +0 and b = -0, where a <= b (the
\* zeros are equal) and yet Encode(-0) comes strictly before Encode(+0).
C2_FloatOrder ==
    (BothCalled /\ a.type \in FloatTypes /\ ~IsNaN(a) /\ ~IsNaN(b)
     /\ ~(IsZero(a) /\ IsZero(b) /\ a.sign = 0 /\ b.sign = 1)) =>
        (FloatLeq(a, b) <=> BytesLeq(ra.b, rb.b))

\* Two negative float64 of different magnitude, encoded in numeric order.
C2_Witness ==
    /\ BothCalled /\ a.type = "float64" /\ ~IsNaN(a) /\ ~IsNaN(b)
    /\ a.sign = 1 /\ b.sign = 1 /\ FloatLess(a, b)
    /\ BytesLeq(ra.b, rb.b) /\ ~BytesLeq(rb.b, ra.b)

\* C3: for two time.Time a, b on which Encode succeeds, whatever their zones
\* and years (years before year 1 included), a is before or equal to b
\* exactly when Encode(a) <= Encode(b) bytewise.
C3_TimeOrder ==
    (BothSucceed /\ a.type = "time.Time") =>
        (TimeLeq(a, b) <=> BytesLeq(ra.b, rb.b))

\* C4: two time.Time that are the same instant in different zones (any
\* offset) both encode without error, to the same bytes.
C4_ZoneIndependence ==
    (BothCalled /\ a.type = "time.Time" /\ SameInstant(a, b)) =>
        ra.err.isNil /\ rb.err.isNil /\ ra.b = rb.b

\* C5: Encode of a string or a []byte succeeds and returns its bytes, as
\* many as it has: none for the empty one.
C5_BytesVerbatim ==
    (ra.called /\ a.type \in {"string", "[]byte"}) =>
        ra.err.isNil /\ ra.b = a.s

\* C6: two values of one type other than string and []byte, on which Encode
\* succeeds, encode to the same number of bytes.
C6_FixedWidth ==
    (BothSucceed /\ a.type \in SignedTypes \cup UnsignedTypes \cup FloatTypes
                               \cup {"bool", "time.Time"}) =>
        Len(ra.b) = Len(rb.b)

\* C7: for a value of a type that implements EncodeSortable, Encode returns
\* the pair EncodeSortable returns; the wrapper int64Type encodes as the
\* int64 it wraps.
C7_Delegation ==
    /\ (ra.called /\ a.type = "Encoder") => ra = Ret(a.ret.b, a.ret.err)
    /\ (ra.called /\ a.type = "int64Type") =>
           ra = Encode(rev, goV2, [type |-> "int64", d |-> a.d])

\* The error Encode makes for a type it does not support.
IsUnsupportedErr(e) ==
    ~e.isNil /\ Len(e.msg) = 3 /\ e.msg[1] = ErrPrefix /\ e.msg[2] = "unsupported type "

\* The types the package documents as supported.
BuiltinTypes ==
    SignedTypes \cup UnsignedTypes \cup FloatTypes
    \cup {"bool", "string", "[]byte", "time.Time"}

\* C8: a value whose type is neither built in nor an implementer of
\* EncodeSortable gets the unsupported-type error, naming its type, and no
\* bytes; a value of a built-in type never gets that error.
C8_UnsupportedType ==
    ra.called =>
        /\ a \in Unsupported =>
               IsUnsupportedErr(ra.err) /\ ra.err.msg[3] = a.type /\ ra.b = <<>>
        /\ a.type \in BuiltinTypes => ~IsUnsupportedErr(ra.err)

Widen(signed, d) ==
    IF Len(d) = 4 THEN d
    ELSE IF signed /\ d[1] < 0 THEN <<-1, Base - 1, d[1] % Base, d[2]>>
    ELSE <<0, 0, d[1], d[2]>>

\* C10: an int encodes as the int64 of the same value and a uint as the
\* uint64 of the same value, to 8 bytes, on a 32 bit host as on a 64 bit one.
C10_PlatformInts ==
    (ra.called /\ a.type \in {"int", "uint"}) =>
        /\ Len(ra.b) = 8
        /\ ra = Encode(rev, goV2,
                       [type |-> IF a.type = "int" THEN "int64" ELSE "uint64",
                        d |-> Widen(a.type = "int", a.d)])

\* A negative int of a 32 bit host, encoded.
C10_Witness ==
    /\ ra.called /\ a.type = "int" /\ Len(a.d) = 2 /\ a.d[1] < 0 /\ ra.err.isNil

---------------------------------------------------------------------------
\* The big-endian bytes of an unsigned number given as digits in base 65536:
\* two bytes a digit, the high one first.
BigEndianBytes(u) ==
    [i \in 1..(2 * Len(u)) |->
        IF i % 2 = 1 THEN u[(i + 1) \div 2] \div 256 ELSE u[i \div 2] % 256]

\* v + 2^(W-1) for a signed v of W bits, as digits: not negative, below 2^W.
PlusHalfRange(d, half) == [d EXCEPT ![1] = d[1] + half]

\* What C12 says Encode returns for an integer or a bool (an int or uint
\* counts as the 64 bit number of its value).
C12_Expected(v) ==
    CASE v.type = "bool" -> <<IF v.v THEN 1 ELSE 0>>
      [] v.type = "int8" -> PlusHalfRange(v.d, 128)
      [] v.type = "uint8" -> v.d
      [] v.type \in {"int16", "int32", "int64"} ->
             BigEndianBytes(PlusHalfRange(v.d, 32768))
      [] v.type \in {"uint16", "uint32", "uint64"} -> BigEndianBytes(v.d)
      [] v.type = "int" -> BigEndianBytes(PlusHalfRange(Widen(TRUE, v.d), 32768))
      [] v.type = "uint" -> BigEndianBytes(Widen(FALSE, v.d))

\* C12: a signed integer v of W bits encodes to the W/8 big-endian bytes of
\* v + 2^(W-1) (the two's complement with the first bit inverted: the
\* minimum to zero bytes, 0 to 80 00.., the maximum to FF bytes), an
\* unsigned one to its W/8 big-endian bytes, a bool to 00 or 01.
C12_SignFlippedBigEndian ==
    (ra.called /\ a.type \in SignedTypes \cup UnsignedTypes \cup {"bool"}) =>
        ra.err.isNil /\ ra.b = C12_Expected(a)

\* int16(-32768) encoded to 00 00.
C12_Witness ==
    /\ ra.called /\ a = [type |-> "int16", d |-> <<-32768>>] /\ ra.b = <<0, 0>>
    /\ rb.called /\ b = [type |-> "int16", d |-> <<32767>>] /\ rb.b = <<255, 255>>

\* What C13 says the encoded pattern is: every bit of p inverted when the
\* sign bit is set, the sign bit alone when it is clear.
C13_Expected(p) ==
    IF p[1] >= 32768 THEN [i \in 1..Len(p) |-> (Base - 1) - p[i]]
    ELSE [p EXCEPT ![1] = p[1] + 32768]

\* C13: a float of W bits with bit pattern p (NaNs and both zeros included)
\* encodes to the W/8 big-endian bytes of p with every bit inverted when the
\* sign bit is set and the sign bit alone inverted when it is clear; two
\* different patterns get different encodings.
C13_FloatBits ==
    /\ (ra.called /\ a.type \in FloatTypes) =>
           LET p == IF a.type = "float32" THEN Float32bits(a) ELSE Float64bits(a)
           IN  /\ ra.err.isNil
               /\ ra.b = BigEndianBytes(C13_Expected(p))
               /\ Len(ra.b) = (IF a.type = "float32" THEN 4 ELSE 8)
    /\ (BothCalled /\ a.type \in FloatTypes /\ a # b) => ra.b # rb.b

\* A NaN with the sign bit clear and one with it set, both encoded.
C13_Witness ==
    /\ BothCalled /\ a.type = "float32" /\ IsNaN(a) /\ IsNaN(b)
    /\ a.sign = 0 /\ b.sign = 1 /\ ra.b # rb.b

\* An error that starts with the package's prefix.
HasPrefix(e) == ~e.isNil /\ Len(e.msg) >= 1 /\ e.msg[1] = ErrPrefix

---------------------------------------------------------------------------
\* C11: Encode of a []byte succeeds and returns a copy: the call leaves the
\* argument as it was, the result has the argument's contents, and
\* afterwards a write to the argument does not show in the result nor a
\* write to the result in the argument.
C11_CopyNotAlias ==
    (ra.called /\ a.type = "[]byte") =>
        /\ ra.err.isNil /\ ra.b = a.s
        /\ "in" \notin wrote => inBuf = a.s
        /\ "out" \notin wrote => outBuf = a.s

===========================================================================
